---- MODULE Spec2Model ----
(***************************************************************************)
(* Convergence kernel of crdt-rs: GCounter, PNCounter, LWWRegister, GSet,  *)
(* TwoPhaseSet and ObserveRemoveSet, each as a group of replicas that      *)
(* mutate locally, exchange the returned operations (apply) and exchange   *)
(* full states (merge).                                                    *)
(*                                                                         *)
(* A behaviour exercises one replicated type, chosen by `kind` in Init;    *)
(* the replicas of the other types stay as constructed.  The carrier is    *)
(* the set `ops` of operations returned so far: an operation is never      *)
(* consumed, so it can be delivered in any order and any number of times.  *)
(* Counter values are i32 in the tests; the bounds keep them far from the  *)
(* ends of the range, so they are plain integers here.                     *)
(***************************************************************************)
EXTENDS Integers, FiniteSets, Sequences, TLC

\* ------------------------------------------------------------------ bounds
\* Number of mutator calls (add, set, remove) made in one behaviour.
MaxOps == 3
\* Greatest reading of a replica's wall clock (readings are 1..MaxTime).
MaxTime == 2

\* ------------------------------------------------------------ input domains
\* Replica ids (HostT); the tests use "h1" and "h2".
Replicas == {"h1", "h2"}
\* Amounts passed to GCounter.add and PNCounter.add.
Amounts == {-1, 0, 1, 2}
\* Payloads of the sets (the tests use 123 and 456).
Elems == {123, 456}
\* Payloads of the register (the tests use "first" and "last").
Texts == {"first", "last"}
\* Clock readings: UTC::now() of a replica.  The clocks of different replicas
\* are skewed at will; the readings of one replica's clock strictly increase.
Times == 1..MaxTime
\* The replicated types.
Kinds == {"GCounter", "PNCounter", "LWWRegister", "GSet", "TwoPhaseSet", "ObserveRemoveSet",
          "ObserveRemoveMap"}
\* Keys of the map (the tests use "c1" and "c2").
Keys == {"c1", "c2"}
\* Amounts the update closures of the map pass to PNCounter.add.
MapAmounts == {-1, 1}
\* The closures passed to ObserveRemoveMap.update: |c| c.add(amount), and a
\* closure that changes nothing and returns None (as GCounter.add does for a
\* negative amount).
UpdateFns == [fn : {"add"}, amount : MapAmounts] \cup {[fn |-> "none"]}

VARIABLES
    kind,     \* the replicated type this group of replicas instantiates
    gc,       \* gc[r]: GCounter.counters of replica r (my_id = r)
    pn,       \* pn[r]: PNCounter pos_counters / neg_counters of replica r (my_id = r)
    lww,      \* lww[r]: LWWRegister (value, timestamp)
    gs,       \* gs[r]: GSet.set
    tps,      \* tps[r]: TwoPhaseSet (members, tombstones)
    ors,      \* ors[r]: ObserveRemoveSet (members, tombstones)
    orm,      \* orm[r]: ObserveRemoveMap (keys, values) of PNCounter values
    ops,      \* operations returned by mutators so far (what the carrier holds)
    seen,     \* seen[r]: operations replica r has incorporated
    ret,      \* what the last call returned: an operation, None, or Unit; or Panic
    calls,    \* number of mutator calls so far
    clock,    \* clock[r]: the last reading of replica r's wall clock
    added     \* sum of the non-negative amounts passed to GCounter.add

vars == <<kind, gc, pn, lww, gs, tps, ors, orm, ops, seen, ret, calls, clock, added>>

\* ----------------------------------------------------------- HashMap helpers
\* Option::None, as returned by a rejected mutator.
None == [type |-> "None"]

\* (), as returned by apply and merge.
Unit == [type |-> "Unit"]

\* HashMap::new()
EmptyMap == [k \in {} |-> 0]

\* map.get(k).cloned().unwrap_or(Zero::zero())
GetOrZero(map, k) == IF k \in DOMAIN map THEN map[k] ELSE 0

\* map.insert(k, v)
Insert(map, k, v) == [x \in (DOMAIN map) \cup {k} |-> IF x = k THEN v ELSE map[x]]

\* A sum in place of the maximum.
Max_sum(a, b) == a + b

\* *vec![a, b].iter().max().unwrap()
Max(a, b) == IF a >= b THEN a ELSE b

\* map.values().cloned().sum()
RECURSIVE SumOver(_, _)
SumOver(map, keys) ==
    IF keys = {} THEN 0
    ELSE LET k == CHOOSE x \in keys : TRUE
         IN  map[k] + SumOver(map, keys \ {k})

Sum(map) == SumOver(map, DOMAIN map)

\* ------------------------------------------------------------------ GCounter
\* GCounter::new
GCounter_new == EmptyMap

\* GCounter::value
GCounter_value(counters) == Sum(counters)

\* SetGCounterOperation::apply without the max: the operation's value overwrites the entry.
SetGCounterOperation_apply_overwrite(op, counters) == Insert(counters, op.id, op.value)

\* SetGCounterOperation::apply
SetGCounterOperation_apply(op, counters) ==
    LET cur_value == GetOrZero(counters, op.id)
    IN  Insert(counters, op.id, Max(op.value, cur_value))

\* The operation GCounter::add builds for a non-negative amount.
GCounter_add_op(my_id, counters, value) ==
    [type |-> "SetGCounter", id |-> my_id, value |-> GCounter_value(counters) + value]

\* One step of the loop of GCounter::merge, over the ids in `ids`.
RECURSIVE GCounter_merge_loop(_, _, _)
GCounter_merge_loop(self, other, ids) ==
    IF ids = {} THEN self
    ELSE LET id == CHOOSE x \in ids : TRUE
             cur_value == GetOrZero(self, id)
         IN  GCounter_merge_loop(Insert(self, id, Max(cur_value, other[id])), other, ids \ {id})

\* A merge that takes the other replica's map as it is.
GCounter_merge_replace(self, other) == other

\* GCounter::merge
GCounter_merge(self, other) == GCounter_merge_loop(self, other, DOMAIN other)

\* ----------------------------------------------------------------- PNCounter
\* PNCounter::new
PNCounter_new == [pos_counters |-> EmptyMap, neg_counters |-> EmptyMap]

\* PNCounter::value
PNCounter_value(c) == Sum(c.pos_counters) - Sum(c.neg_counters)

\* The operation PNCounter::add builds.
PNCounter_add_op(my_id, value) ==
    IF value >= 0
    THEN [type |-> "SetPNCounter", id |-> my_id, pos_value |-> value, neg_value |-> 0]
    ELSE [type |-> "SetPNCounter", id |-> my_id, pos_value |-> 0, neg_value |-> -value]

\* SetPNCounterOperation::apply without the max: the operation's values overwrite the entries.
SetPNCounterOperation_apply_overwrite(op, c) ==
    [pos_counters |-> Insert(c.pos_counters, op.id, op.pos_value),
     neg_counters |-> Insert(c.neg_counters, op.id, op.neg_value)]

\* SetPNCounterOperation::apply
SetPNCounterOperation_apply(op, c) ==
    LET cur_pos_value == GetOrZero(c.pos_counters, op.id)
        cur_neg_value == GetOrZero(c.neg_counters, op.id)
    IN  [pos_counters |-> Insert(c.pos_counters, op.id, Max(op.pos_value, cur_pos_value)),
         neg_counters |-> Insert(c.neg_counters, op.id, Max(op.neg_value, cur_neg_value))]

\* PNCounter::merge: the two loops are the loop of GCounter::merge on each map.
PNCounter_merge(self, other) ==
    [pos_counters |-> GCounter_merge_loop(self.pos_counters, other.pos_counters,
                                          DOMAIN other.pos_counters),
     neg_counters |-> GCounter_merge_loop(self.neg_counters, other.neg_counters,
                                          DOMAIN other.neg_counters)]

\* --------------------------------------------------------------- LWWRegister
\* LWWRegister::new: Default::default() (the empty string) at the epoch.
LWWRegister_new == [value |-> "", timestamp |-> 0]

\* LWWRegister::value
LWWRegister_value(reg) == reg.value

\* The operation LWWRegister::set builds; `now` is the reading of UTC::now().
LWWRegister_set_op(value, now) == [type |-> "SetLWWRegister", value |-> value, timestamp |-> now]

\* LWWRegister::apply that also adopts an operation with an equal timestamp.
LWWRegister_apply_on_equal(reg, op) ==
    IF op.timestamp >= reg.timestamp
    THEN [value |-> op.value, timestamp |-> op.timestamp]
    ELSE reg

\* LWWRegister::apply
LWWRegister_apply(reg, op) ==
    IF op.timestamp > reg.timestamp
    THEN [value |-> op.value, timestamp |-> op.timestamp]
    ELSE reg

\* LWWRegister::merge
LWWRegister_merge(self, other) ==
    IF other.timestamp > self.timestamp
    THEN [value |-> other.value, timestamp |-> other.timestamp]
    ELSE self

\* ---------------------------------------------------------------------- GSet
\* GSet::new
GSet_new == {}

\* GSet::value
GSet_value(set) == set

\* GSet::apply
GSet_apply(set, op) == set \cup {op.value}

\* GSet::merge
GSet_merge(self, other) == self \cup other

\* --------------------------------------------------------------- TwoPhaseSet
\* TwoPhaseSet::new
TwoPhaseSet_new == [members |-> {}, tombstones |-> {}]

\* TwoPhaseSet::value
TwoPhaseSet_value(s) == s.members \ s.tombstones

\* TwoPhaseSet::apply
TwoPhaseSet_apply(s, op) ==
    IF op.type = "Add"
    THEN [s EXCEPT !.members = @ \cup {op.value}]
    ELSE [s EXCEPT !.tombstones = @ \cup {op.value}]

\* TwoPhaseSet::merge that takes the other side's tombstones instead of the union.
TwoPhaseSet_merge_replace(self, other) ==
    [members |-> self.members \cup other.members, tombstones |-> other.tombstones]

\* TwoPhaseSet::merge
TwoPhaseSet_merge(self, other) ==
    [members |-> self.members \cup other.members,
     tombstones |-> self.tombstones \cup other.tombstones]

\* The guard of TwoPhaseSet::add testing members instead of value().
TwoPhaseSet_add_rejects_member(s, value) == value \in s.members

\* The guard of TwoPhaseSet::add: the call is rejected when it holds.
TwoPhaseSet_add_rejects(s, value) == value \in TwoPhaseSet_value(s)

\* The guard of TwoPhaseSet::remove: the call is rejected when it holds.
TwoPhaseSet_remove_rejects(s, value) == value \notin TwoPhaseSet_value(s)

\* ---------------------------------------------------------- ObserveRemoveSet
\* HashMap<T, HashSet<Uuid>>::new()
EmptyTagMap == [k \in {} |-> {}]

\* ObserveRemoveSet::new
ObserveRemoveSet_new == [members |-> EmptyTagMap, tombstones |-> {}]

\* ObserveRemoveSet::value that hides a value as soon as one of its tags is tombstoned.
ObserveRemoveSet_value_any(s) ==
    {k \in DOMAIN s.members : s.members[k] \cap s.tombstones = {}}

\* ObserveRemoveSet::value
ObserveRemoveSet_value(s) ==
    {k \in DOMAIN s.members : ~(s.members[k] \subseteq s.tombstones)}

\* Uuid::new_v4(): a tag no earlier call produced (the index of this call).
NewUuid == calls + 1

\* ObserveRemoveSet::apply whose Add leaves an existing entry as it is (or_insert
\* without the insert of the tag).
ObserveRemoveSet_apply_no_insert(s, op) ==
    IF op.type = "Add"
    THEN LET ids == IF op.value \in DOMAIN s.members THEN s.members[op.value] ELSE {op.id}
         IN  [s EXCEPT !.members = Insert(s.members, op.value, ids)]
    ELSE [s EXCEPT !.tombstones = @ \cup op.uuids]

\* ObserveRemoveSet::apply
ObserveRemoveSet_apply(s, op) ==
    IF op.type = "Add"
    THEN LET ids == IF op.value \in DOMAIN s.members THEN s.members[op.value] ELSE {}
         IN  [s EXCEPT !.members = Insert(s.members, op.value, ids \cup {op.id})]
    ELSE [s EXCEPT !.tombstones = @ \cup op.uuids]

\* The loop of ObserveRemoveSet::merge, over the values in `values`.
RECURSIVE ObserveRemoveSet_merge_loop(_, _, _)
ObserveRemoveSet_merge_loop(members, other, values) ==
    IF values = {} THEN members
    ELSE LET value == CHOOSE x \in values : TRUE
             ids == other[value]
             entry == IF value \in DOMAIN members
                      THEN members[value] \cup ids      \* Entry::Occupied
                      ELSE ids                          \* Entry::Vacant
         IN  ObserveRemoveSet_merge_loop(Insert(members, value, entry), other, values \ {value})

\* ObserveRemoveSet::merge that keeps an occupied entry as it is (no union of the tags).
ObserveRemoveSet_merge_keep(self, other) ==
    [members |-> [k \in (DOMAIN self.members) \cup (DOMAIN other.members) |->
                    IF k \in DOMAIN self.members THEN self.members[k] ELSE other.members[k]],
     tombstones |-> self.tombstones \cup other.tombstones]

\* ObserveRemoveSet::merge
ObserveRemoveSet_merge(self, other) ==
    [members |-> ObserveRemoveSet_merge_loop(self.members, other.members, DOMAIN other.members),
     tombstones |-> self.tombstones \cup other.tombstones]

\* A guard of remove that rejects every value that is not visible.
ObserveRemoveSet_remove_rejects_hidden(s, value) == value \notin ObserveRemoveSet_value(s)

\* The guard of ObserveRemoveSet::remove: the call is rejected when it holds.
ObserveRemoveSet_remove_rejects(s, value) == value \notin DOMAIN s.members

\* ---------------------------------------------------------- ObserveRemoveMap
\* A failed Option::unwrap(): the thread panics and the run ends.
Panic == [type |-> "Panic"]

\* HashMap<K, V>::new()
EmptyValueMap == [k \in {} |-> PNCounter_new]

\* ObserveRemoveMap::new, with value_ctor = || PNCounter::new(my_id)
ObserveRemoveMap_new == [keys |-> ObserveRemoveSet_new, values |-> EmptyValueMap]

\* A plain insert of a fresh value in place of the entry's or_insert.
OrInsert_fresh(values, key) ==
    Insert(values, key, PNCounter_new)

\* self.values.entry(key.clone()).or_insert((*self.value_ctor)())
OrInsert(values, key) ==
    IF key \in DOMAIN values THEN values ELSE Insert(values, key, PNCounter_new)

\* ObserveRemoveMap::get: Some(value) is the value itself.
ObserveRemoveMap_get(m, key) ==
    IF key \in ObserveRemoveSet_value(m.keys)
    THEN IF key \in DOMAIN m.values THEN m.values[key] ELSE None
    ELSE None

\* ObserveRemoveMap::apply that drops a value operation for a key without a value
\* (no get-or-insert).
ObserveRemoveMap_apply_no_materialize(m, op) ==
    LET keys == IF op.key_op # None THEN ObserveRemoveSet_apply(m.keys, op.key_op) ELSE m.keys
        key == op.value_op.key
        values == IF op.key_op # None
                  THEN [OrInsert(m.values, key) EXCEPT
                           ![key] = SetPNCounterOperation_apply(op.value_op.op, @)]
                  ELSE IF key \in DOMAIN m.values
                       THEN [m.values EXCEPT ![key] = SetPNCounterOperation_apply(op.value_op.op, @)]
                       ELSE m.values
    IN  [keys |-> keys, values |-> values]

\* ObserveRemoveMap::apply
ObserveRemoveMap_apply(m, op) ==
    LET keys == IF op.key_op # None THEN ObserveRemoveSet_apply(m.keys, op.key_op) ELSE m.keys
        values == IF op.value_op # None
                  THEN LET key == op.value_op.key
                           entry == OrInsert(m.values, key)
                       IN  [entry EXCEPT ![key] = SetPNCounterOperation_apply(op.value_op.op, @)]
                  ELSE m.values
    IN  [keys |-> keys, values |-> values]

\* The loop of ObserveRemoveMap::merge, over the keys in `ks`.
RECURSIVE ObserveRemoveMap_merge_loop(_, _, _)
ObserveRemoveMap_merge_loop(values, other, ks) ==
    IF ks = {} THEN values
    ELSE LET key == CHOOSE x \in ks : TRUE
             entry == OrInsert(values, key)
         IN  ObserveRemoveMap_merge_loop(
                 [entry EXCEPT ![key] = PNCounter_merge(@, other[key])], other, ks \ {key})

\* A merge of the key sets that only merges the values self already holds.
ObserveRemoveMap_merge_held_values(self, other) ==
    [keys |-> ObserveRemoveSet_merge(self.keys, other.keys),
     values |-> ObserveRemoveMap_merge_loop(self.values, other.values,
                                            DOMAIN other.values \cap DOMAIN self.values)]

\* ObserveRemoveMap::merge
ObserveRemoveMap_merge(self, other) ==
    [keys |-> ObserveRemoveSet_merge(self.keys, other.keys),
     values |-> ObserveRemoveMap_merge_loop(self.values, other.values, DOMAIN other.values)]

\* ObserveRemoveMap::update up to the call of update_fn: the key operation
\* (None for a visible key) and the map with the key added and the value
\* materialized.
ObserveRemoveMap_update_key(m, key) ==
    LET key_op == IF key \in ObserveRemoveSet_value(m.keys)
                  THEN None
                  ELSE [type |-> "Add", value |-> key, id |-> NewUuid]
        keys == IF key_op = None THEN m.keys ELSE ObserveRemoveSet_apply(m.keys, key_op)
    IN  [key_op |-> key_op, map |-> [keys |-> keys, values |-> OrInsert(m.values, key)]]

\* A closure that returns an operation for twice the amount it applied.
UpdateFn_op_twice(f, my_id) ==
    IF f.fn = "add" THEN PNCounter_add_op(my_id, f.amount + f.amount) ELSE None

\* update_fn(value): the value operation the closure returns, for the
\* PNCounter of replica my_id.
UpdateFn_op(f, my_id) ==
    IF f.fn = "add" THEN PNCounter_add_op(my_id, f.amount) ELSE None

\* update_fn(value): the value the closure leaves.
UpdateFn_value(f, my_id, value) ==
    IF f.fn = "add" THEN SetPNCounterOperation_apply(PNCounter_add_op(my_id, f.amount), value)
    ELSE value

\* ---------------------------------------------------------------- the system
Init ==
    /\ kind \in Kinds
    /\ gc = [r \in Replicas |-> GCounter_new]
    /\ pn = [r \in Replicas |-> PNCounter_new]
    /\ lww = [r \in Replicas |-> LWWRegister_new]
    /\ gs = [r \in Replicas |-> GSet_new]
    /\ tps = [r \in Replicas |-> TwoPhaseSet_new]
    /\ ors = [r \in Replicas |-> ObserveRemoveSet_new]
    /\ orm = [r \in Replicas |-> ObserveRemoveMap_new]
    /\ ops = {}
    /\ seen = [r \in Replicas |-> {}]
    /\ ret = None
    /\ calls = 0
    /\ clock = [r \in Replicas |-> 0]
    /\ added = 0

\* A mutator call that returned `op`, already applied on replica r.
Returned(r, op) ==
    /\ ops' = ops \cup {op}
    /\ seen' = [seen EXCEPT ![r] = @ \cup {op}]
    /\ ret' = op
    /\ calls' = calls + 1

\* A mutator call on replica r that was rejected.
Rejected ==
    /\ ret' = None
    /\ calls' = calls + 1
    /\ UNCHANGED <<ops, seen>>

\* The carrier delivers `op` to replica r.
Delivered(r, op) ==
    /\ seen' = [seen EXCEPT ![r] = @ \cup {op}]
    /\ ret' = Unit
    /\ UNCHANGED <<ops, calls>>

\* Replica r folds in the state of replica o, and with it what o incorporated.
Merged(r, o) ==
    /\ seen' = [seen EXCEPT ![r] = @ \cup seen[o]]
    /\ ret' = Unit
    /\ UNCHANGED <<ops, calls>>

\* GCounter::add
GCAdd(r, value) ==
    /\ kind = "GCounter"
    /\ calls < MaxOps
    /\ IF value < 0
       THEN /\ Rejected
            /\ UNCHANGED <<gc, added>>
       ELSE LET op == GCounter_add_op(r, gc[r], value)
            IN  /\ gc' = [gc EXCEPT ![r] = SetGCounterOperation_apply(op, gc[r])]
                /\ added' = added + value
                /\ Returned(r, op)
    /\ UNCHANGED <<kind, orm, pn, lww, gs, tps, ors, clock>>

\* op.apply(&mut counter) with an operation the carrier holds
GCApply(r, op) ==
    /\ kind = "GCounter"
    /\ op \in ops
    /\ gc' = [gc EXCEPT ![r] = SetGCounterOperation_apply(op, gc[r])]
    /\ Delivered(r, op)
    /\ UNCHANGED <<kind, orm, pn, lww, gs, tps, ors, added, clock>>

\* counter.merge(&other)
GCMerge(r, o) ==
    /\ kind = "GCounter"
    /\ r # o
    /\ gc' = [gc EXCEPT ![r] = GCounter_merge(gc[r], gc[o])]
    /\ Merged(r, o)
    /\ UNCHANGED <<kind, orm, pn, lww, gs, tps, ors, added, clock>>

\* PNCounter::add
PNAdd(r, value) ==
    /\ kind = "PNCounter"
    /\ calls < MaxOps
    /\ LET op == PNCounter_add_op(r, value)
       IN  /\ pn' = [pn EXCEPT ![r] = SetPNCounterOperation_apply(op, pn[r])]
           /\ Returned(r, op)
    /\ UNCHANGED <<kind, orm, gc, lww, gs, tps, ors, added, clock>>

PNApply(r, op) ==
    /\ kind = "PNCounter"
    /\ op \in ops
    /\ pn' = [pn EXCEPT ![r] = SetPNCounterOperation_apply(op, pn[r])]
    /\ Delivered(r, op)
    /\ UNCHANGED <<kind, orm, gc, lww, gs, tps, ors, added, clock>>

PNMerge(r, o) ==
    /\ kind = "PNCounter"
    /\ r # o
    /\ pn' = [pn EXCEPT ![r] = PNCounter_merge(pn[r], pn[o])]
    /\ Merged(r, o)
    /\ UNCHANGED <<kind, orm, gc, lww, gs, tps, ors, added, clock>>

\* LWWRegister::set, with `now` the reading of the replica's clock
LWWSet(r, value, now) ==
    /\ kind = "LWWRegister"
    /\ calls < MaxOps
    /\ now > clock[r]
    /\ clock' = [clock EXCEPT ![r] = now]
    /\ LET op == LWWRegister_set_op(value, now)
       IN  /\ lww' = [lww EXCEPT ![r] = LWWRegister_apply(lww[r], op)]
           /\ Returned(r, op)
    /\ UNCHANGED <<kind, orm, gc, pn, gs, tps, ors, added>>

LWWApply(r, op) ==
    /\ kind = "LWWRegister"
    /\ op \in ops
    /\ lww' = [lww EXCEPT ![r] = LWWRegister_apply(lww[r], op)]
    /\ Delivered(r, op)
    /\ UNCHANGED <<kind, orm, gc, pn, gs, tps, ors, added, clock>>

LWWMerge(r, o) ==
    /\ kind = "LWWRegister"
    /\ r # o
    /\ lww' = [lww EXCEPT ![r] = LWWRegister_merge(lww[r], lww[o])]
    /\ Merged(r, o)
    /\ UNCHANGED <<kind, orm, gc, pn, gs, tps, ors, added, clock>>

\* GSet::add
GSAdd(r, value) ==
    /\ kind = "GSet"
    /\ calls < MaxOps
    /\ IF value \in gs[r]
       THEN /\ Rejected
            /\ UNCHANGED gs
       ELSE LET op == [type |-> "AddGSet", value |-> value]
            IN  /\ gs' = [gs EXCEPT ![r] = GSet_apply(gs[r], op)]
                /\ Returned(r, op)
    /\ UNCHANGED <<kind, orm, gc, pn, lww, tps, ors, added, clock>>

GSApply(r, op) ==
    /\ kind = "GSet"
    /\ op \in ops
    /\ gs' = [gs EXCEPT ![r] = GSet_apply(gs[r], op)]
    /\ Delivered(r, op)
    /\ UNCHANGED <<kind, orm, gc, pn, lww, tps, ors, added, clock>>

GSMerge(r, o) ==
    /\ kind = "GSet"
    /\ r # o
    /\ gs' = [gs EXCEPT ![r] = GSet_merge(gs[r], gs[o])]
    /\ Merged(r, o)
    /\ UNCHANGED <<kind, orm, gc, pn, lww, tps, ors, added, clock>>

\* TwoPhaseSet::add
TPAdd(r, value) ==
    /\ kind = "TwoPhaseSet"
    /\ calls < MaxOps
    /\ IF TwoPhaseSet_add_rejects(tps[r], value)
       THEN /\ Rejected
            /\ UNCHANGED tps
       ELSE LET op == [type |-> "Add", value |-> value]
            IN  /\ tps' = [tps EXCEPT ![r] = TwoPhaseSet_apply(tps[r], op)]
                /\ Returned(r, op)
    /\ UNCHANGED <<kind, orm, gc, pn, lww, gs, ors, added, clock>>

\* TwoPhaseSet::remove
TPRemove(r, value) ==
    /\ kind = "TwoPhaseSet"
    /\ calls < MaxOps
    /\ IF TwoPhaseSet_remove_rejects(tps[r], value)
       THEN /\ Rejected
            /\ UNCHANGED tps
       ELSE LET op == [type |-> "Remove", value |-> value]
            IN  /\ tps' = [tps EXCEPT ![r] = TwoPhaseSet_apply(tps[r], op)]
                /\ Returned(r, op)
    /\ UNCHANGED <<kind, orm, gc, pn, lww, gs, ors, added, clock>>

TPApply(r, op) ==
    /\ kind = "TwoPhaseSet"
    /\ op \in ops
    /\ tps' = [tps EXCEPT ![r] = TwoPhaseSet_apply(tps[r], op)]
    /\ Delivered(r, op)
    /\ UNCHANGED <<kind, orm, gc, pn, lww, gs, ors, added, clock>>

TPMerge(r, o) ==
    /\ kind = "TwoPhaseSet"
    /\ r # o
    /\ tps' = [tps EXCEPT ![r] = TwoPhaseSet_merge(tps[r], tps[o])]
    /\ Merged(r, o)
    /\ UNCHANGED <<kind, orm, gc, pn, lww, gs, ors, added, clock>>

\* ObserveRemoveSet::add
ORSAdd(r, value) ==
    /\ kind = "ObserveRemoveSet"
    /\ calls < MaxOps
    /\ LET op == [type |-> "Add", value |-> value, id |-> NewUuid]
       IN  /\ ors' = [ors EXCEPT ![r] = ObserveRemoveSet_apply(ors[r], op)]
           /\ Returned(r, op)
    /\ UNCHANGED <<kind, orm, gc, pn, lww, gs, tps, added, clock>>

\* ObserveRemoveSet::remove
ORSRemove(r, value) ==
    /\ kind = "ObserveRemoveSet"
    /\ calls < MaxOps
    /\ IF ObserveRemoveSet_remove_rejects(ors[r], value)
       THEN /\ Rejected
            /\ UNCHANGED ors
       ELSE LET keys == ors[r].members[value]
                op == [type |-> "Remove", uuids |-> keys]
            IN  /\ ors' = [ors EXCEPT ![r] = ObserveRemoveSet_apply(ors[r], op)]
                /\ Returned(r, op)
    /\ UNCHANGED <<kind, orm, gc, pn, lww, gs, tps, added, clock>>

ORSApply(r, op) ==
    /\ kind = "ObserveRemoveSet"
    /\ op \in ops
    /\ ors' = [ors EXCEPT ![r] = ObserveRemoveSet_apply(ors[r], op)]
    /\ Delivered(r, op)
    /\ UNCHANGED <<kind, orm, gc, pn, lww, gs, tps, added, clock>>

ORSMerge(r, o) ==
    /\ kind = "ObserveRemoveSet"
    /\ r # o
    /\ ors' = [ors EXCEPT ![r] = ObserveRemoveSet_merge(ors[r], ors[o])]
    /\ Merged(r, o)
    /\ UNCHANGED <<kind, orm, gc, pn, lww, gs, tps, added, clock>>

\* ObserveRemoveMap::update
ORMUpdate(r, key, f) ==
    /\ kind = "ObserveRemoveMap"
    /\ ret # Panic
    /\ calls < MaxOps
    /\ LET u == ObserveRemoveMap_update_key(orm[r], key)
           value_op == UpdateFn_op(f, r)
           map == [u.map EXCEPT !.values[key] = UpdateFn_value(f, r, @)]
       IN  /\ orm' = [orm EXCEPT ![r] = map]
           /\ IF u.key_op # None \/ value_op # None
              THEN IF value_op = None
                   THEN \* value_op.unwrap() on None
                        /\ ret' = Panic
                        /\ calls' = calls + 1
                        /\ UNCHANGED <<ops, seen>>
                   ELSE Returned(r, [type |-> "ORMap", key_op |-> u.key_op,
                                     value_op |-> [key |-> key, op |-> value_op]])
              ELSE Rejected
    /\ UNCHANGED <<kind, gc, pn, lww, gs, tps, ors, added, clock>>

ORMApply(r, op) ==
    /\ kind = "ObserveRemoveMap"
    /\ ret # Panic
    /\ op \in ops
    /\ orm' = [orm EXCEPT ![r] = ObserveRemoveMap_apply(orm[r], op)]
    /\ Delivered(r, op)
    /\ UNCHANGED <<kind, gc, pn, lww, gs, tps, ors, added, clock>>

ORMMerge(r, o) ==
    /\ kind = "ObserveRemoveMap"
    /\ ret # Panic
    /\ r # o
    /\ orm' = [orm EXCEPT ![r] = ObserveRemoveMap_merge(orm[r], orm[o])]
    /\ Merged(r, o)
    /\ UNCHANGED <<kind, gc, pn, lww, gs, tps, ors, added, clock>>

\* Local mutation and operation delivery: what an operation-based deployment does.
NextOps ==
    \/ \E r \in Replicas, value \in Amounts : GCAdd(r, value)
    \/ \E r \in Replicas, op \in ops : GCApply(r, op)
    \/ \E r \in Replicas, value \in Amounts : PNAdd(r, value)
    \/ \E r \in Replicas, op \in ops : PNApply(r, op)
    \/ \E r \in Replicas, value \in Texts, now \in Times : LWWSet(r, value, now)
    \/ \E r \in Replicas, op \in ops : LWWApply(r, op)
    \/ \E r \in Replicas, value \in Elems : GSAdd(r, value)
    \/ \E r \in Replicas, op \in ops : GSApply(r, op)
    \/ \E r \in Replicas, value \in Elems : TPAdd(r, value)
    \/ \E r \in Replicas, value \in Elems : TPRemove(r, value)
    \/ \E r \in Replicas, op \in ops : TPApply(r, op)
    \/ \E r \in Replicas, value \in Elems : ORSAdd(r, value)
    \/ \E r \in Replicas, value \in Elems : ORSRemove(r, value)
    \/ \E r \in Replicas, op \in ops : ORSApply(r, op)
    \/ \E r \in Replicas, key \in Keys, f \in UpdateFns : ORMUpdate(r, key, f)
    \/ \E r \in Replicas, op \in ops : ORMApply(r, op)

\* State exchange: a replica merges the current state of another replica.
NextMerge ==
    \/ \E r, o \in Replicas : GCMerge(r, o)
    \/ \E r, o \in Replicas : PNMerge(r, o)
    \/ \E r, o \in Replicas : LWWMerge(r, o)
    \/ \E r, o \in Replicas : GSMerge(r, o)
    \/ \E r, o \in Replicas : TPMerge(r, o)
    \/ \E r, o \in Replicas : ORSMerge(r, o)
    \/ \E r, o \in Replicas : ORMMerge(r, o)

Next == NextOps \/ NextMerge

\* Mutation, operation delivery and state exchange, interleaved at will.
Spec == Init /\ [][Next]_vars

\* Mutation and operation delivery only.
SpecOps == Init /\ [][NextOps]_vars

\* ==================================================================== claims

\* C1: PNCounter.add(v) changes the local value() by exactly v, in every
\* reachable state and for positive, zero and negative v.
C1_PNAddChangesValueByAmount ==
    [][\A r \in Replicas, v \in Amounts :
          PNAdd(r, v) => PNCounter_value(pn'[r]) = PNCounter_value(pn[r]) + v]_vars

\* C2: GCounter.add(v) with v >= 0 increases the local value() by exactly v,
\* also when entries of other replica ids are non-zero.
C2_GCAddIncreasesValueByAmount ==
    [][\A r \in Replicas, v \in Amounts :
          (v >= 0 /\ GCAdd(r, v)) => GCounter_value(gc'[r]) = GCounter_value(gc[r]) + v]_vars

\* Every replica has incorporated every operation generated so far.
AllDelivered == \A r \in Replicas : seen[r] = ops

\* C3: once every generated GCounter operation has reached every replica (by
\* apply or through merged states), each replica's value() is the sum of all
\* non-negative amounts passed to add.
C3_GCValueIsSumOfAdds ==
    (kind = "GCounter" /\ AllDelivered) =>
        \A r \in Replicas : GCounter_value(gc[r]) = added

\* C4: two replicas that have incorporated the same set of generated
\* operations (their own by local mutation, the others by apply, in any order
\* and any number of times) return equal value(), for the five timestamp-free types.
C4_SameOpsSameValue ==
    \A r1, r2 \in Replicas :
        seen[r1] = seen[r2] =>
            /\ GCounter_value(gc[r1]) = GCounter_value(gc[r2])
            /\ PNCounter_value(pn[r1]) = PNCounter_value(pn[r2])
            /\ GSet_value(gs[r1]) = GSet_value(gs[r2])
            /\ TwoPhaseSet_value(tps[r1]) = TwoPhaseSet_value(tps[r2])
            /\ ObserveRemoveSet_value(ors[r1]) = ObserveRemoveSet_value(ors[r2])

\* C4 witness: two ObserveRemoveSet replicas hold the same three operations, a
\* Remove among them, and each of them generated one of the operations.
C4_Witness ==
    /\ kind = "ObserveRemoveSet"
    /\ seen["h1"] = seen["h2"]
    /\ Cardinality(seen["h1"]) = 3
    /\ \E op \in ops : op.type = "Remove"
    /\ ObserveRemoveSet_value(ors["h1"]) # {}
    /\ ors["h1"].tombstones # {}

\* The greatest timestamp an operation generated so far carries.
MaxTimestamp == CHOOSE t \in {op.timestamp : op \in ops} :
                    \A op \in ops : op.timestamp <= t

\* C5: once every set operation generated on any replica has been applied on
\* every replica, all registers return the same value(), written by an
\* operation carrying the greatest timestamp; timestamps of different
\* replicas need not differ.
C5_LWWConverges ==
    (kind = "LWWRegister" /\ ops # {} /\ AllDelivered) =>
        /\ \A r1, r2 \in Replicas : LWWRegister_value(lww[r1]) = LWWRegister_value(lww[r2])
        /\ \A r \in Replicas :
              \E op \in ops : /\ op.timestamp = MaxTimestamp
                              /\ LWWRegister_value(lww[r]) = op.value

\* States a replica of each type is in now or after one more apply or merge.
GCStates ==
    {gc[r] : r \in Replicas}
       \cup {SetGCounterOperation_apply(op, gc[r]) : r \in Replicas, op \in ops}
PNStates ==
    {pn[r] : r \in Replicas}
       \cup {SetPNCounterOperation_apply(op, pn[r]) : r \in Replicas, op \in ops}
GSStates ==
    {gs[r] : r \in Replicas} \cup {GSet_apply(gs[r], op) : r \in Replicas, op \in ops}
TPStates ==
    {tps[r] : r \in Replicas} \cup {TwoPhaseSet_apply(tps[r], op) : r \in Replicas, op \in ops}
ORSStates ==
    {ors[r] : r \in Replicas}
       \cup {ObserveRemoveSet_apply(ors[r], op) : r \in Replicas, op \in ops}

\* C6: merge is idempotent, commutative and associative on the full internal
\* states of GCounter, PNCounter, GSet, TwoPhaseSet and ObserveRemoveSet (the
\* maps and sets a replica holds; my_id names the replica and is never merged).
C6_MergeIsSemilattice ==
    /\ kind = "GCounter" =>
          \A a, b, c \in GCStates :
              /\ GCounter_merge(a, a) = a
              /\ GCounter_merge(a, b) = GCounter_merge(b, a)
              /\ GCounter_merge(GCounter_merge(a, b), c) = GCounter_merge(a, GCounter_merge(b, c))
    /\ kind = "PNCounter" =>
          \A a, b, c \in PNStates :
              /\ PNCounter_merge(a, a) = a
              /\ PNCounter_merge(a, b) = PNCounter_merge(b, a)
              /\ PNCounter_merge(PNCounter_merge(a, b), c) = PNCounter_merge(a, PNCounter_merge(b, c))
    /\ kind = "GSet" =>
          \A a, b, c \in GSStates :
              /\ GSet_merge(a, a) = a
              /\ GSet_merge(a, b) = GSet_merge(b, a)
              /\ GSet_merge(GSet_merge(a, b), c) = GSet_merge(a, GSet_merge(b, c))
    /\ kind = "TwoPhaseSet" =>
          \A a, b, c \in TPStates :
              /\ TwoPhaseSet_merge(a, a) = a
              /\ TwoPhaseSet_merge(a, b) = TwoPhaseSet_merge(b, a)
              /\ TwoPhaseSet_merge(TwoPhaseSet_merge(a, b), c)
                    = TwoPhaseSet_merge(a, TwoPhaseSet_merge(b, c))
    /\ kind = "ObserveRemoveSet" =>
          \A a, b, c \in ORSStates :
              /\ ObserveRemoveSet_merge(a, a) = a
              /\ ObserveRemoveSet_merge(a, b) = ObserveRemoveSet_merge(b, a)
              /\ ObserveRemoveSet_merge(ObserveRemoveSet_merge(a, b), c)
                    = ObserveRemoveSet_merge(a, ObserveRemoveSet_merge(b, c))

\* C6 witness: three pairwise different ObserveRemoveSet states, two of which
\* hold different tags for one value, and whose join is none of the three.
C6_Witness ==
    /\ kind = "ObserveRemoveSet"
    /\ \E a, b, c \in ORSStates :
          /\ a # b /\ b # c /\ a # c
          /\ \E v \in (DOMAIN a.members) \cap (DOMAIN b.members) : a.members[v] # b.members[v]
          /\ ObserveRemoveSet_merge(ObserveRemoveSet_merge(a, b), c) \notin {a, b, c}

\* C7: LWWRegister.merge is commutative on (value, timestamp), also for two
\* registers holding different values under the same timestamp.
C7_LWWMergeCommutes ==
    \A r1, r2 \in Replicas :
        LWWRegister_merge(lww[r1], lww[r2]) = LWWRegister_merge(lww[r2], lww[r1])

\* C8: after LWWRegister.set(v) returns, the replica's value() is v, in every
\* reachable state of the register.
C8_LWWSetTakesEffect ==
    [][\A r \in Replicas, v \in Texts, now \in Times :
          LWWSet(r, v, now) => LWWRegister_value(lww'[r]) = v]_vars

\* C9: once v is in a replica's tombstones it is never again in that
\* replica's value(), whatever add, remove, apply or merge follows; and a
\* replica that merges such a state or applies Remove(v) does not show v.
C9_TombstonePermanent ==
    [][\A r \in Replicas :
          /\ \A v \in tps[r].tombstones : v \notin TwoPhaseSet_value(tps'[r])
          /\ \A o \in Replicas :
                TPMerge(r, o) => \A v \in tps[o].tombstones : v \notin TwoPhaseSet_value(tps'[r])
          /\ \A op \in ops :
                (op.type = "Remove" /\ TPApply(r, op)) => op.value \notin TwoPhaseSet_value(tps'[r])
      ]_vars

\* C9 witness: replica h2 has incorporated both Add(v) and Remove(v) and holds v
\* as a member and as a tombstone, h1 holds the tombstone too, and the last call
\* was an apply or a merge.
C9_Witness ==
    /\ kind = "TwoPhaseSet"
    /\ \E v \in Elems :
          /\ [type |-> "Add", value |-> v] \in seen["h2"]
          /\ [type |-> "Remove", value |-> v] \in seen["h2"]
          /\ v \in tps["h2"].members
          /\ v \in tps["h2"].tombstones
          /\ v \in tps["h1"].tombstones
          /\ ret = Unit

\* The value v was added and then removed on replica r.
AddedThenRemoved(r, v) == v \in tps[r].members /\ v \in tps[r].tombstones

\* C10 as stated: TwoPhaseSet.add(v) of a value that was added and then
\* removed returns no operation and leaves the state unchanged.
C10_ReAddRejected ==
    [][\A r \in Replicas, v \in Elems :
          (AddedThenRemoved(r, v) /\ TPAdd(r, v)) => (ret' = None /\ tps'[r] = tps[r])]_vars

\* C10 amended: TwoPhaseSet.add(v) of a value that was added and then removed
\* returns the operation Add(v), and leaves members, tombstones and value()
\* unchanged.
C10_ReAddReturnsAddWithoutEffect ==
    [][\A r \in Replicas, v \in Elems :
          (AddedThenRemoved(r, v) /\ TPAdd(r, v)) =>
              /\ ret' = [type |-> "Add", value |-> v]
              /\ tps'[r] = tps[r]
              /\ TwoPhaseSet_value(tps'[r]) = TwoPhaseSet_value(tps[r])]_vars

\* C10 witness: add(v) has just returned Add(v) on a replica where v is both a
\* member and tombstoned.
C10_Witness ==
    /\ kind = "TwoPhaseSet"
    /\ calls = 3
    /\ \E r \in Replicas, v \in Elems :
          /\ ret = [type |-> "Add", value |-> v]
          /\ AddedThenRemoved(r, v)
          /\ seen[r] = {[type |-> "Add", value |-> v], [type |-> "Remove", value |-> v]}
          /\ \A o \in Replicas \ {r} : seen[o] = {}

\* The tags of the Add operations replica r has incorporated.
SeenTags(r) == {op.id : op \in {o \in seen[r] : o.type = "Add"}}

\* C11: add wins over a concurrent remove.  A Remove carries only tags the
\* removing replica had incorporated when remove was called, and a replica
\* that has incorporated Add(x, t) and no Remove that carries t shows x: so
\* after an add(x) concurrent with a remove(x), x is in value() wherever both
\* operations (or the merged states) have arrived.
C11_AddWins ==
    /\ [][\A r \in Replicas, v \in Elems :
             (ORSRemove(r, v) /\ ret' # None) => ret'.uuids \subseteq SeenTags(r)]_vars
    /\ [](kind = "ObserveRemoveSet" =>
             \A r \in Replicas :
                 \A a \in {o \in seen[r] : o.type = "Add"} :
                     (\A rm \in {o \in seen[r] : o.type = "Remove"} : a.id \notin rm.uuids)
                         => a.value \in ObserveRemoveSet_value(ors[r]))

\* C11 witness: x was added (tag 1), added again (tag 2) and then removed by a
\* replica that held tag 1 only; both replicas have all three operations, hold
\* the tombstone and show x.
C11_Witness ==
    /\ kind = "ObserveRemoveSet"
    /\ \E x \in Elems :
          /\ ops = {[type |-> "Add", value |-> x, id |-> 1],
                    [type |-> "Add", value |-> x, id |-> 2],
                    [type |-> "Remove", uuids |-> {1}]}
          /\ \A r \in Replicas :
                /\ seen[r] = ops
                /\ ors[r].tombstones = {1}
                /\ x \in ObserveRemoveSet_value(ors[r])

\* C12: ObserveRemoveSet.add(v) makes v visible on the local replica in every
\* reachable state, also right after v was removed locally or remotely (the
\* tag is fresh).
C12_AddMakesVisible ==
    [][\A r \in Replicas, v \in Elems :
          ORSAdd(r, v) => v \in ObserveRemoveSet_value(ors'[r])]_vars

\* C12 witness: add(v) has just returned on a replica where every earlier tag
\* of v is tombstoned.
C12_Witness ==
    /\ kind = "ObserveRemoveSet"
    /\ ret.type = "Add"
    /\ \E r \in Replicas :
          /\ ret \in seen[r]
          /\ ret.value \in DOMAIN ors[r].members
          /\ ors[r].members[ret.value] \ {ret.id} # {}
          /\ ors[r].members[ret.value] \ {ret.id} \subseteq ors[r].tombstones
          /\ ret.value \in ObserveRemoveSet_value(ors[r])

\* C13: ObserveRemoveMap.update(k, f) on a key that is not yet visible, with f
\* returning no value operation, completes without failure and returns a
\* composite operation that carries the key add for k.
C13_UpdateWithoutValueOpReturnsKeyAdd ==
    [][\A r \in Replicas, key \in Keys :
          (key \notin ObserveRemoveSet_value(orm[r].keys) /\ ORMUpdate(r, key, [fn |-> "none"]))
             => /\ ret'.type = "ORMap"
                /\ ret'.key_op.type = "Add"
                /\ ret'.key_op.value = key]_vars

\* No call has panicked: the replicas are there to be asked.
NoPanic == ret # Panic

\* The keys replica r shows.
VisibleKeys(r) == ObserveRemoveSet_value(orm[r].keys)

\* C14: map replicas holding counters that have incorporated the same
\* operations returned by update (in any order, with duplicates) show the same
\* keys, and get(k) returns counters with the same value() for every visible k.
C14_MapConverges ==
    (kind = "ObserveRemoveMap" /\ NoPanic) =>
        \A r1, r2 \in Replicas :
            seen[r1] = seen[r2] =>
                /\ VisibleKeys(r1) = VisibleKeys(r2)
                /\ \A k \in VisibleKeys(r1) :
                      /\ ObserveRemoveMap_get(orm[r1], k) # None
                      /\ ObserveRemoveMap_get(orm[r2], k) # None
                      /\ PNCounter_value(ObserveRemoveMap_get(orm[r1], k))
                            = PNCounter_value(ObserveRemoveMap_get(orm[r2], k))

\* C14 witness: both replicas updated the same key, every operation has
\* reached both, and the counter holds an increment of one replica and a
\* decrement of the other.
C14_Witness ==
    /\ kind = "ObserveRemoveMap"
    /\ AllDelivered
    /\ Cardinality(ops) = 3
    /\ \E k \in Keys :
          /\ \A r \in Replicas : \E op \in ops : op.value_op.key = k /\ op.value_op.op.id = r
          /\ \A r \in Replicas :
                /\ k \in VisibleKeys(r)
                /\ Sum(orm[r].values[k].pos_counters) > 0
                /\ Sum(orm[r].values[k].neg_counters) > 0

\* The value operations for key k among the operations replica r has incorporated.
SeenValueOps(r, k) == {op.value_op.op : op \in {o \in seen[r] : o.value_op.key = k}}

\* The greatest number of a non-empty finite set of numbers.
MaxOf(S) == CHOOSE x \in S : \A y \in S : y <= x

\* The counter the value operations in vops add up to, whatever their order.
CounterOf(vops) ==
    LET ids == {o.id : o \in vops}
    IN  [pos_counters |-> [id \in ids |-> MaxOf({o.pos_value : o \in {x \in vops : x.id = id}})],
         neg_counters |-> [id \in ids |-> MaxOf({o.neg_value : o \in {x \in vops : x.id = id}})]]

\* Replica r has incorporated an operation that carries the key add for k.
SeenKeyAdd(r, k) == \E op \in seen[r] : op.key_op # None /\ op.key_op.value = k

\* C15: a value operation for key k applied before the operation carrying
\* k's key add is kept: get(k) returns nothing until the key add is applied,
\* and then returns the counter holding every value operation applied for k,
\* the same as under the opposite order.
C15_LazyMaterialization ==
    (kind = "ObserveRemoveMap" /\ NoPanic) =>
        \A r \in Replicas, k \in Keys :
            /\ ~SeenKeyAdd(r, k) => ObserveRemoveMap_get(orm[r], k) = None
            /\ SeenKeyAdd(r, k) => ObserveRemoveMap_get(orm[r], k) = CounterOf(SeenValueOps(r, k))
            /\ SeenValueOps(r, k) # {} =>
                  (k \in DOMAIN orm[r].values /\ orm[r].values[k] = CounterOf(SeenValueOps(r, k)))

\* C15 witness: a replica has applied a value-only operation for k and no key
\* add for k: the counter is materialized and counts, and get(k) returns nothing.
C15_Witness ==
    /\ kind = "ObserveRemoveMap"
    /\ \E r \in Replicas, k \in Keys :
          /\ ~SeenKeyAdd(r, k)
          /\ \E op \in seen[r] : op.key_op = None /\ op.value_op.key = k
          /\ k \in DOMAIN orm[r].values
          /\ PNCounter_value(orm[r].values[k]) # 0
          /\ ObserveRemoveMap_get(orm[r], k) = None

\* C16: a mutator call that returns no operation (GCounter.add, GSet.add,
\* TwoPhaseSet.add/remove, ObserveRemoveSet.remove, ObserveRemoveMap.update)
\* leaves the full internal state of every replica as it was before the call.
C16_RejectedChangesNothing ==
    [][(\E r \in Replicas :
           \/ \E value \in Amounts : GCAdd(r, value)
           \/ \E value \in Elems : GSAdd(r, value) \/ TPAdd(r, value) \/ TPRemove(r, value)
                                      \/ ORSRemove(r, value)
           \/ \E key \in Keys, f \in UpdateFns : ORMUpdate(r, key, f))
        /\ ret' = None
           => /\ gc' = gc /\ gs' = gs /\ tps' = tps /\ ors' = ors /\ orm' = orm
              /\ ops' = ops]_vars

\* C16 witness: an update of the map has just returned no operation while a
\* replica shows a key whose counter has counted.
C16_Witness ==
    /\ kind = "ObserveRemoveMap"
    /\ ret = None
    /\ calls > 0
    /\ \E r \in Replicas, k \in Keys :
          /\ k \in VisibleKeys(r)
          /\ PNCounter_value(orm[r].values[k]) # 0

\* C17: apply is idempotent for every type: in every reachable state of a
\* replica and for every generated operation, applying the operation twice
\* gives the same internal state as applying it once (so a PNCounter operation
\* delivered twice does not change value() a second time).
C17_ApplyIdempotent ==
    \A r \in Replicas, op \in ops :
        /\ kind = "GCounter" =>
              LET once == SetGCounterOperation_apply(op, gc[r])
              IN  SetGCounterOperation_apply(op, once) = once
        /\ kind = "PNCounter" =>
              LET once == SetPNCounterOperation_apply(op, pn[r])
              IN  /\ SetPNCounterOperation_apply(op, once) = once
                  /\ PNCounter_value(SetPNCounterOperation_apply(op, once)) = PNCounter_value(once)
        /\ kind = "LWWRegister" =>
              LET once == LWWRegister_apply(lww[r], op)
              IN  LWWRegister_apply(once, op) = once
        /\ kind = "GSet" =>
              LET once == GSet_apply(gs[r], op)
              IN  GSet_apply(once, op) = once
        /\ kind = "TwoPhaseSet" =>
              LET once == TwoPhaseSet_apply(tps[r], op)
              IN  TwoPhaseSet_apply(once, op) = once
        /\ kind = "ObserveRemoveSet" =>
              LET once == ObserveRemoveSet_apply(ors[r], op)
              IN  ObserveRemoveSet_apply(once, op) = once
        /\ kind = "ObserveRemoveMap" =>
              LET once == ObserveRemoveMap_apply(orm[r], op)
              IN  ObserveRemoveMap_apply(once, op) = once

\* C17 witness: a PNCounter replica that has counted holds an operation of
\* the other replica whose first application changes value().
C17_Witness ==
    /\ kind = "PNCounter"
    /\ \E r \in Replicas, op \in ops :
          /\ op \notin seen[r]
          /\ PNCounter_value(pn[r]) # 0
          /\ op.id # r
          /\ PNCounter_value(SetPNCounterOperation_apply(op, pn[r])) # PNCounter_value(pn[r])

\* C18: the operation a mutator returns is already reflected in the replica
\* it was called on: applying the returned operation to that replica right
\* after the call leaves its state unchanged.
C18_SelfApplication ==
    [][\A r \in Replicas :
          /\ (\E value \in Amounts : GCAdd(r, value)) /\ ret' # None
                => SetGCounterOperation_apply(ret', gc'[r]) = gc'[r]
          /\ (\E value \in Amounts : PNAdd(r, value))
                => SetPNCounterOperation_apply(ret', pn'[r]) = pn'[r]
          /\ (\E value \in Texts, now \in Times : LWWSet(r, value, now))
                => LWWRegister_apply(lww'[r], ret') = lww'[r]
          /\ (\E value \in Elems : GSAdd(r, value)) /\ ret' # None
                => GSet_apply(gs'[r], ret') = gs'[r]
          /\ (\E value \in Elems : TPAdd(r, value) \/ TPRemove(r, value)) /\ ret' # None
                => TwoPhaseSet_apply(tps'[r], ret') = tps'[r]
          /\ (\E value \in Elems : ORSAdd(r, value) \/ ORSRemove(r, value)) /\ ret' # None
                => ObserveRemoveSet_apply(ors'[r], ret') = ors'[r]
          /\ (\E key \in Keys, f \in UpdateFns : ORMUpdate(r, key, f))
                /\ ret' # None /\ ret' # Panic
                => ObserveRemoveMap_apply(orm'[r], ret') = orm'[r]]_vars

\* C18 witness: update has just returned an operation carrying a key add and
\* a value operation, on a map that had incorporated an operation before.
C18_Witness ==
    /\ kind = "ObserveRemoveMap"
    /\ ret \in ops
    /\ ret.key_op # None
    /\ \E r \in Replicas :
          /\ ret \in seen[r]
          /\ Cardinality(seen[r]) > 1
          /\ PNCounter_value(orm[r].values[ret.value_op.key]) # 0

\* C19: across every add, apply and merge step on a GCounter replica, no
\* entry of the counter map decreases (or disappears) and value() never decreases.
C19_GCounterMonotonic ==
    [][kind = "GCounter" =>
          \A r \in Replicas :
              /\ \A id \in DOMAIN gc[r] : id \in DOMAIN gc'[r] /\ gc'[r][id] >= gc[r][id]
              /\ GCounter_value(gc'[r]) >= GCounter_value(gc[r])]_vars

\* C19 witness: a GCounter replica holds an entry for each replica id, and
\* has incorporated an operation whose value is below the entry it set.
C19_Witness ==
    /\ kind = "GCounter"
    /\ \E r \in Replicas :
          /\ DOMAIN gc[r] = Replicas
          /\ \A id \in Replicas : gc[r][id] > 0
          /\ \E op \in seen[r] : op.value < gc[r][op.id]

\* C20: LWWRegister apply and merge replace the local (value, timestamp) by
\* the incoming pair exactly when the incoming timestamp is strictly greater;
\* otherwise both are left unchanged; the local timestamp never decreases.
C20_LWWAdoptsIffStrictlyGreater ==
    [][kind = "LWWRegister" =>
          \A r \in Replicas :
              /\ \A op \in ops :
                    LWWApply(r, op) =>
                        IF op.timestamp > lww[r].timestamp
                        THEN lww'[r] = [value |-> op.value, timestamp |-> op.timestamp]
                        ELSE lww'[r] = lww[r]
              /\ \A o \in Replicas :
                    LWWMerge(r, o) =>
                        IF lww[o].timestamp > lww[r].timestamp
                        THEN lww'[r] = lww[o]
                        ELSE lww'[r] = lww[r]
              /\ lww'[r].timestamp >= lww[r].timestamp]_vars

\* C20 witness: a register has incorporated, by apply or merge, an operation
\* with its own timestamp and another value, and kept its value.
C20_Witness ==
    /\ kind = "LWWRegister"
    /\ ret = Unit
    /\ \E r \in Replicas, op \in ops :
          /\ op \in seen[r]
          /\ op.timestamp = lww[r].timestamp
          /\ op.value # lww[r].value

\* C21: ObserveRemoveSet.remove(v) returns an operation if and only if v is
\* in value() immediately before the call; removing a value that is not
\* visible (never added, or added and already removed) returns no operation.
C21_RemoveReturnsOpIffVisible ==
    [][\A r \in Replicas, v \in Elems :
          ORSRemove(r, v) => (ret' # None <=> v \in ObserveRemoveSet_value(ors[r]))]_vars

\* C21 as the code has it: remove(v) returns an operation if and only if v is
\* a key of members immediately before the call; the operation is Remove of
\* v's tag set and leaves v hidden; for a value that was added and already
\* removed the operation is returned again and the state stays as it was.
C21_RemoveReturnsOpIffMember ==
    [][\A r \in Replicas, v \in Elems :
          ORSRemove(r, v) =>
              /\ ret' # None <=> v \in DOMAIN ors[r].members
              /\ ret' # None =>
                    /\ ret' = [type |-> "Remove", uuids |-> ors[r].members[v]]
                    /\ v \notin ObserveRemoveSet_value(ors'[r])
              /\ (v \in DOMAIN ors[r].members /\ v \notin ObserveRemoveSet_value(ors[r]))
                    => ors' = ors]_vars

\* C21 witness: after three calls only an Add and a Remove of its tag exist,
\* and remove has just returned a Remove whose tags were all tombstoned
\* on a replica that had incorporated that Remove.
C21_Witness ==
    /\ kind = "ObserveRemoveSet"
    /\ calls = 3
    /\ Cardinality(ops) = 2
    /\ ret \in ops
    /\ ret.type = "Remove"
    /\ ret.uuids # {}
    /\ \E r \in Replicas :
          /\ ret \in seen[r]
          /\ ObserveRemoveSet_value(ors[r]) = {}
          /\ DOMAIN ors[r].members # {}

\* The internal state of replica r of the type under test.
StateOf(r) ==
    CASE kind = "GCounter" -> gc[r]
      [] kind = "PNCounter" -> pn[r]
      [] kind = "LWWRegister" -> lww[r]
      [] kind = "GSet" -> gs[r]
      [] kind = "TwoPhaseSet" -> tps[r]
      [] kind = "ObserveRemoveSet" -> ors[r]
      [] kind = "ObserveRemoveMap" -> orm[r]

\* op.apply(&mut s) for the type under test.
ApplyOp(s, op) ==
    CASE kind = "GCounter" -> SetGCounterOperation_apply(op, s)
      [] kind = "PNCounter" -> SetPNCounterOperation_apply(op, s)
      [] kind = "LWWRegister" -> LWWRegister_apply(s, op)
      [] kind = "GSet" -> GSet_apply(s, op)
      [] kind = "TwoPhaseSet" -> TwoPhaseSet_apply(s, op)
      [] kind = "ObserveRemoveSet" -> ObserveRemoveSet_apply(s, op)
      [] kind = "ObserveRemoveMap" -> ObserveRemoveMap_apply(s, op)

\* self.merge(&other) for the type under test.
MergeOf(self, other) ==
    CASE kind = "GCounter" -> GCounter_merge(self, other)
      [] kind = "PNCounter" -> PNCounter_merge(self, other)
      [] kind = "LWWRegister" -> LWWRegister_merge(self, other)
      [] kind = "GSet" -> GSet_merge(self, other)
      [] kind = "TwoPhaseSet" -> TwoPhaseSet_merge(self, other)
      [] kind = "ObserveRemoveSet" -> ObserveRemoveSet_merge(self, other)
      [] kind = "ObserveRemoveMap" -> ObserveRemoveMap_merge(self, other)

\* The operations of seq applied to s, first to last.
RECURSIVE ApplySeq(_, _)
ApplySeq(s, seq) ==
    IF seq = <<>> THEN s ELSE ApplySeq(ApplyOp(s, Head(seq)), Tail(seq))

\* Every order of the operations of S.
OrdersOf(S) ==
    {seq \in [1..Cardinality(S) -> S] : \A op \in S : \E i \in DOMAIN seq : seq[i] = op}

\* A replica of the type under test as new() builds it.
NewOf ==
    CASE kind = "GCounter" -> GCounter_new
      [] kind = "PNCounter" -> PNCounter_new
      [] kind = "LWWRegister" -> LWWRegister_new
      [] kind = "GSet" -> GSet_new
      [] kind = "TwoPhaseSet" -> TwoPhaseSet_new
      [] kind = "ObserveRemoveSet" -> ObserveRemoveSet_new
      [] kind = "ObserveRemoveMap" -> ObserveRemoveMap_new

\* The states a replica other than b can be in: those of the other running
\* replicas, and that of a replica that has just been constructed.
PeersOf(b) == {StateOf(r) : r \in Replicas \ {b}} \cup {NewOf}

\* C22: state-based and operation-based reconciliation agree: when replica b
\* has incorporated exactly the operations seen[b], a replica a after
\* a.merge(b) has the same internal state as a after applying every
\* operation of seen[b], in any order.
C22_MergeAgreesWithApply ==
    NoPanic =>
        \A b \in Replicas :
            \A a \in PeersOf(b), seq \in OrdersOf(seen[b]) :
                MergeOf(a, StateOf(b)) = ApplySeq(a, seq)

\* C23: in every state of a map reachable through update, apply and merge,
\* every key visible in the key set has an entry in the value map, so get(k)
\* returns a value for every visible key k.
C23_VisibleKeyHasValue ==
    kind = "ObserveRemoveMap" =>
        \A r \in Replicas :
            \A k \in VisibleKeys(r) :
                /\ k \in DOMAIN orm[r].values
                /\ ObserveRemoveMap_get(orm[r], k) # None
                /\ ObserveRemoveMap_get(orm[r], k) = orm[r].values[k]

\* C23 witness: a replica shows a key it never updated itself, received by
\* apply or merge, with a counter that has counted.
C23_Witness ==
    /\ kind = "ObserveRemoveMap"
    /\ ret = Unit
    /\ \E r \in Replicas, k \in Keys :
          /\ k \in VisibleKeys(r)
          /\ \A op \in ops : op.value_op.key = k => op.value_op.op.id # r
          /\ PNCounter_value(ObserveRemoveMap_get(orm[r], k)) # 0

====
